---- MODULE Spec2Model ----
(***************************************************************************)
(* The ticket request handler of LambdaFunctionAWS/lambda_function.py:     *)
(* one invocation of lambda_handler is one atomic step over the three      *)
(* collaborators (the DynamoDB table, the S3 bucket, the SNS topic).       *)
(* Every collaborator call of an invocation is logged in `calls`, and any  *)
(* of them may raise (the set `faults` of an invocation).                  *)
(***************************************************************************)
EXTENDS Integers, Sequences, FiniteSets, TLC

\* ---------------------------------------------------------------- bounds
\* Number of ticket ids uuid4 hands out in a run.
MaxTickets == 2
\* Number of distinct clock readings datetime.utcnow() can give.
MaxTime == 2
\* Number of invocations in a run.
MaxInvocations == 3
\* Longest image payload, counted in comma-separated segments.
MaxSegs == 2

\* ------------------------------------------------------------ value sets
\* A ticketId no Create ever generated (a caller may name any identifier).
ForeignIds == {0}
Methods == {"OPTIONS", "POST", "GET", "PUT", "DELETE", "PATCH"}
StatusVals == {"Pending", "Complete", "In Progress"}
\* The comma-free pieces of an imageBase64 string: empty text, text that
\* base64-decodes, and text base64.b64decode rejects (incorrect padding).
Segments == {"", "b64", "bad"}
\* An imageBase64 string is the sequence of its pieces between commas.
Payloads == UNION {[1..n -> Segments] : n \in 1..MaxSegs}

VARIABLES
    table,        \* MaintenanceRequests: ticketId -> item (a dict of attributes)
    bucket,       \* keys of the objects in BUCKET_NAME
    uuid_next,    \* the next identifier uuid4 hands out
    invocations,  \* how many invocations the run has made
    phase,        \* "idle" between invocations, "returned" when one has returned
    http_method,  \* the method the last invocation dispatched on
    locals,       \* the local variables the last invocation assigned
    calls,        \* the collaborator calls of the last invocation, in order
    response      \* what the last invocation returned

vars == <<table, bucket, uuid_next, invocations, phase, http_method, locals, calls, response>>

\* The empty dict {} (also the empty list and the empty string of a body).
Empty == <<>>

\* ------------------------------------------------------- response envelope
headers ==
    [allowOrigin |-> "*", allowHeaders |-> "*",
     allowMethods |-> "OPTIONS,POST,GET,PUT,DELETE"]

Resp(code, body) == [statusCode |-> code, headers |-> headers, body |-> body]

\* Variant of ServerError: the failure response built without the headers.
ServerErrorNoHeaders(e) == [statusCode |-> 500, headers |-> Empty, body |-> [error |-> e]]
\* The catch-all handler: a 500 carrying str(e).
ServerError(e) == Resp(500, [error |-> e])

\* What one invocation leaves behind.
Outcome(tbl, bkt, cs, lv, resp) ==
    [table |-> tbl, bucket |-> bkt, calls |-> cs, locals |-> lv, response |-> resp]

\* -------------------------------------------------------- method extraction
\* event.get('httpMethod'), then event['requestContext']['http']['method'],
\* then 'OPTIONS' on KeyError.  The nested path is the one key "ctxMethod".
ResolveMethod(event) ==
    IF "httpMethod" \in DOMAIN event /\ event.httpMethod # ""
    THEN event.httpMethod
    ELSE IF "ctxMethod" \in DOMAIN event THEN event.ctxMethod ELSE "OPTIONS"

\* REST events, HTTP-API events (with or without an empty httpMethod), and
\* events that carry no method at all.
EventShapes ==
    {[httpMethod |-> m] : m \in Methods}
    \cup {[ctxMethod |-> m] : m \in Methods \cup {""}}
    \cup {[httpMethod |-> "", ctxMethod |-> m] : m \in Methods}
    \cup {Empty, [httpMethod |-> ""]}

EventsFor(m) == {e \in EventShapes : ResolveMethod(e) = m}

\* ------------------------------------------------------------ collaborators
\* Variant of Call: a call that raises is made a second time.
CallWithRetry(cs, name, arg, ok) ==
    IF ok THEN Append(cs, <<name, arg, ok>>)
    ELSE Append(Append(cs, <<name, arg, ok>>), <<name, arg, ok>>)
\* One collaborator call, made once (no retry): its name, its key argument,
\* and whether it returned (TRUE) or raised (FALSE).
Call(cs, name, arg, ok) == Append(cs, <<name, arg, ok>>)

\* The calls of each collaborator.
Reads == {"get_item", "scan"}
Writes == {"put_item", "update_item", "delete_item"}
ObjectOps == {"put_object", "delete_object", "generate_presigned_url"}
Publishes == {"publish"}

\* f"{ticket_id}.jpg"
image_key_for(ticket_id) == <<ticket_id, ".jpg">>

\* Variant of get_item: an absent record is taken to carry the derived key.
get_item_derived_key(tbl, ticket_id) ==
    IF ticket_id \in DOMAIN tbl THEN tbl[ticket_id]
    ELSE [imageKey |-> image_key_for(ticket_id)]
\* table.get_item(Key=...).get('Item', {})
get_item(tbl, ticket_id) ==
    IF ticket_id \in DOMAIN tbl THEN tbl[ticket_id] ELSE Empty

\* table.put_item(Item=item): the item replaces whatever the key held.
put_item(tbl, item) == (item.ticketId :> item) @@ tbl

\* table.update_item(Key, "set #s = :stat") with no ConditionExpression:
\* DynamoDB edits the item, or adds one holding the key and the attribute
\* when the key has no item.
update_item(tbl, ticket_id, new_status) ==
    LET base == IF ticket_id \in DOMAIN tbl THEN tbl[ticket_id]
                ELSE [ticketId |-> ticket_id]
    IN (ticket_id :> (("status" :> new_status) @@ base)) @@ tbl

\* table.delete_item(Key=...): removing an absent key is a no-op.
delete_item(tbl, ticket_id) == [k \in DOMAIN tbl \ {ticket_id} |-> tbl[k]]

\* s3.put_object / s3.delete_object on the bucket's key set.
put_object(bkt, key) == bkt \cup {key}
\* Variant of delete_object: the object is left in place.
delete_object_noop(bkt, key) == bkt
delete_object(bkt, key) == bkt \ {key}

\* s3.generate_presigned_url('get_object', ..., ExpiresIn=3600)
ExpiresIn == 3600
presigned_url(key) == [get_object |-> key, expires |-> ExpiresIn]

\* ------------------------------------------------------------------ CREATE
\* image_data.split(",")[1] when the text holds a comma.
strip_prefix(image_data) ==
    IF Len(image_data) > 1 THEN image_data[2] ELSE image_data[1]

\* Variant of b64decode_ok: nothing is rejected.
b64decode_lenient(piece) == TRUE
\* base64.b64decode succeeds on this piece.
b64decode_ok(piece) == piece # "bad"

\* 'imageBase64' in body and body['imageBase64'] (a non-empty string)
has_image(body) == "imageBase64" \in DOMAIN body /\ body.imageBase64 # <<"">>

PostFaults == {{}, {"put_object"}, {"put_item"}}

PostBodies ==
    {[wellformed |-> FALSE, json |-> Empty],
     [wellformed |-> TRUE, json |-> Empty]}
    \cup {[wellformed |-> TRUE, json |-> [imageBase64 |-> p]] : p \in Payloads}

Post(tbl, bkt, payload, ticket_id, now, faults) ==
    IF ~payload.wellformed
    THEN Outcome(tbl, bkt, <<>>, Empty, ServerError("JSONDecodeError"))
    ELSE
    LET body == payload.json
        img == has_image(body)
        image_data == IF img THEN strip_prefix(body.imageBase64) ELSE ""
        lv0 == [ticket_id |-> ticket_id, has_image |-> img]
        lv1 == IF img THEN ("image_data" :> image_data) @@ lv0 ELSE lv0
        image_key == image_key_for(ticket_id)
    IN
    IF img /\ ~b64decode_ok(image_data)
    THEN Outcome(tbl, bkt, <<>>, lv1, ServerError("binascii.Error"))
    ELSE IF img /\ "put_object" \in faults
    THEN Outcome(tbl, bkt, Call(<<>>, "put_object", image_key, FALSE), lv1,
                 ServerError("put_object"))
    ELSE
    LET cs1 == IF img THEN Call(<<>>, "put_object", image_key, TRUE) ELSE <<>>
        bkt1 == IF img THEN put_object(bkt, image_key) ELSE bkt
        item0 == [ticketId |-> ticket_id, status |-> "Pending", timestamp |-> now]
        item == IF img THEN ("imageKey" :> image_key) @@ item0 ELSE item0
    IN
    IF "put_item" \in faults
    THEN Outcome(tbl, bkt1, Call(cs1, "put_item", ticket_id, FALSE), lv1,
                 ServerError("put_item"))
    ELSE Outcome(put_item(tbl, item), bkt1, Call(cs1, "put_item", ticket_id, TRUE),
                 lv1, Resp(201, [message |-> "Ticket created", ticketId |-> ticket_id]))

\* -------------------------------------------------------------------- READ
\* items.sort(key=lambda x: x.get('timestamp', ''), reverse=True): the key of
\* an item; '' sorts below every timestamp, and is the number 0 here.
sort_key(item) == IF "timestamp" \in DOMAIN item THEN item.timestamp ELSE 0

\* Variant of stays_before: oldest first (reverse=True left out).
stays_before_ascending(placed, item) == sort_key(placed) <= sort_key(item)
\* Whether an item being placed goes somewhere after `placed`: the sort is
\* stable, so equal keys keep their scan order.
stays_before(placed, item) == sort_key(placed) >= sort_key(item)

\* Insert `item` after the last element that stays before it.
RECURSIVE insert(_, _)
insert(sorted, item) ==
    IF sorted = <<>> THEN <<item>>
    ELSE IF stays_before(sorted[1], item)
         THEN <<sorted[1]>> \o insert(Tail(sorted), item)
         ELSE <<item>> \o sorted

RECURSIVE sort_newest_first(_)
sort_newest_first(items) ==
    IF items = <<>> THEN <<>>
    ELSE insert(sort_newest_first(SubSeq(items, 1, Len(items) - 1)),
                items[Len(items)])

\* 'imageKey' in item
has_image_key(item) == "imageKey" \in DOMAIN item

\* The orders in which table.scan() may hand back the items.
GetFaults == {{}, {"scan"}, {"generate_presigned_url"}}

ScanOrders(tbl) ==
    {o \in [1..Cardinality(DOMAIN tbl) -> DOMAIN tbl] :
        \A i, j \in DOMAIN o : i # j => o[i] # o[j]}

Get(tbl, bkt, order, faults) ==
    IF "scan" \in faults
    THEN Outcome(tbl, bkt, Call(<<>>, "scan", Empty, FALSE), Empty, ServerError("scan"))
    ELSE
    LET items == [i \in 1..Len(order) |-> tbl[order[i]]]
        cs0 == Call(<<>>, "scan", Empty, TRUE)
        withKey == SelectSeq(items, has_image_key)
    IN
    IF "generate_presigned_url" \in faults /\ withKey # <<>>
    THEN Outcome(tbl, bkt,
                 Call(cs0, "generate_presigned_url", withKey[1].imageKey, FALSE),
                 [items |-> items], ServerError("generate_presigned_url"))
    ELSE
    LET urlCalls == [i \in 1..Len(withKey) |->
                        <<"generate_presigned_url", withKey[i].imageKey, TRUE>>]
        signed == [i \in 1..Len(items) |->
                      IF has_image_key(items[i])
                      THEN ("imageUrl" :> presigned_url(items[i].imageKey)) @@ items[i]
                      ELSE items[i]]
    IN Outcome(tbl, bkt, cs0 \o urlCalls, [items |-> items],
               Resp(200, [items |-> sort_newest_first(signed)]))

\* ------------------------------------------------------------------ UPDATE
\* Variant of should_publish: the status is not looked at.
should_publish_any_status(send_email, new_status) == send_email
\* if send_email and new_status == 'Complete'
should_publish(send_email, new_status) == send_email /\ new_status = "Complete"

\* A dict of the keys K, with the values `full` gives them.
Pick(full, K) == [k \in K |-> full[k]]

\* Bodies that do not parse, bodies that lack a required key, and bodies that
\* carry both required keys with or without sendEmail.
PutBodies(ids) ==
    {[wellformed |-> FALSE, json |-> Empty]}
    \cup {[wellformed |-> TRUE, json |-> Pick(full, K)] :
            full \in [ticketId : ForeignIds, status : {"Complete"}, sendEmail : {TRUE}],
            K \in {{"status", "sendEmail"}, {"ticketId", "sendEmail"}}}
    \cup {[wellformed |-> TRUE, json |-> Pick(full, K)] :
            full \in [ticketId : ids, status : StatusVals, sendEmail : BOOLEAN],
            K \in {{"ticketId", "status"}, {"ticketId", "status", "sendEmail"}}}

\* A call that raises outside a try block ends the invocation, so the calls
\* after it are never made and their failing is no separate case.
PutFaults ==
    {f \in SUBSET {"get_item", "delete_object", "publish", "update_item"} :
        /\ "get_item" \in f => f = {"get_item"}
        /\ "publish" \in f => "update_item" \notin f}

Put(tbl, bkt, payload, faults) ==
    IF ~payload.wellformed
    THEN Outcome(tbl, bkt, <<>>, Empty, ServerError("JSONDecodeError"))
    ELSE LET body == payload.json IN
    IF "ticketId" \notin DOMAIN body
    THEN Outcome(tbl, bkt, <<>>, Empty, ServerError("KeyError: ticketId"))
    ELSE IF "status" \notin DOMAIN body
    THEN Outcome(tbl, bkt, <<>>, [ticket_id |-> body.ticketId],
                 ServerError("KeyError: status"))
    ELSE
    LET ticket_id == body.ticketId
        new_status == body.status
        send_email == IF "sendEmail" \in DOMAIN body THEN body.sendEmail ELSE FALSE
        lv0 == [ticket_id |-> ticket_id, new_status |-> new_status,
                send_email |-> send_email]
    IN
    IF "get_item" \in faults
    THEN Outcome(tbl, bkt, Call(<<>>, "get_item", ticket_id, FALSE), lv0,
                 ServerError("get_item"))
    ELSE
    LET existing_item == get_item(tbl, ticket_id)
        lv1 == ("existing_item_keys" :> DOMAIN existing_item) @@ lv0
        cs1 == Call(<<>>, "get_item", ticket_id, TRUE)
        cleanup == new_status = "Complete" /\ has_image_key(existing_item)
        deleted == "delete_object" \notin faults
        \* the except clause swallows a failed delete
        cs2 == IF cleanup
               THEN Call(cs1, "delete_object", existing_item.imageKey, deleted)
               ELSE cs1
        bkt2 == IF cleanup /\ deleted
                THEN delete_object(bkt, existing_item.imageKey) ELSE bkt
        notify == should_publish(send_email, new_status)
    IN
    IF notify /\ "publish" \in faults
    THEN Outcome(tbl, bkt2, Call(cs2, "publish", ticket_id, FALSE), lv1,
                 ServerError("publish"))
    ELSE
    LET cs3 == IF notify THEN Call(cs2, "publish", ticket_id, TRUE) ELSE cs2 IN
    IF "update_item" \in faults
    THEN Outcome(tbl, bkt2, Call(cs3, "update_item", ticket_id, FALSE), lv1,
                 ServerError("update_item"))
    ELSE Outcome(update_item(tbl, ticket_id, new_status), bkt2,
                 Call(cs3, "update_item", ticket_id, TRUE), lv1,
                 Resp(200, [message |-> "Status updated"]))

\* ------------------------------------------------------------------ DELETE
DeleteFaults ==
    {f \in SUBSET {"get_item", "delete_object", "delete_item"} :
        "get_item" \in f => f = {"get_item"}}

DeleteBodies(ids) ==
    {[wellformed |-> FALSE, json |-> Empty], [wellformed |-> TRUE, json |-> Empty]}
    \cup {[wellformed |-> TRUE, json |-> [ticketId |-> i]] : i \in ids}

Delete(tbl, bkt, payload, faults) ==
    IF ~payload.wellformed
    THEN Outcome(tbl, bkt, <<>>, Empty, ServerError("JSONDecodeError"))
    ELSE LET body == payload.json IN
    IF "ticketId" \notin DOMAIN body
    THEN Outcome(tbl, bkt, <<>>, Empty, ServerError("KeyError: ticketId"))
    ELSE
    LET ticket_id == body.ticketId
        lv0 == [ticket_id |-> ticket_id]
    IN
    IF "get_item" \in faults
    THEN Outcome(tbl, bkt, Call(<<>>, "get_item", ticket_id, FALSE), lv0,
                 ServerError("get_item"))
    ELSE
    LET existing_item == get_item(tbl, ticket_id)
        lv1 == ("existing_item_keys" :> DOMAIN existing_item) @@ lv0
        cs1 == Call(<<>>, "get_item", ticket_id, TRUE)
        cleanup == has_image_key(existing_item)
        deleted == "delete_object" \notin faults
        \* except Exception: pass
        cs2 == IF cleanup
               THEN Call(cs1, "delete_object", existing_item.imageKey, deleted)
               ELSE cs1
        bkt2 == IF cleanup /\ deleted
                THEN delete_object(bkt, existing_item.imageKey) ELSE bkt
    IN
    IF "delete_item" \in faults
    THEN Outcome(tbl, bkt2, Call(cs2, "delete_item", ticket_id, FALSE), lv1,
                 ServerError("delete_item"))
    ELSE Outcome(delete_item(tbl, ticket_id), bkt2,
                 Call(cs2, "delete_item", ticket_id, TRUE), lv1,
                 Resp(200, [message |-> "Deleted"]))

\* The identifiers a caller can name: those handed out so far, and a foreign one.
CallerIds == ForeignIds \cup 1..(uuid_next - 1)

\* The methods the dispatch has no branch for (PATCH, or an empty method).
UnsupportedMethods == (Methods \cup {""}) \ {"OPTIONS", "POST", "GET", "PUT", "DELETE"}

\* ------------------------------------------------------------------ actions
\* No invocation is in progress and none has left anything behind.
NoResponse == [statusCode |-> 0, headers |-> Empty, body |-> Empty]

Init ==
    /\ table = Empty
    /\ bucket = {}
    /\ uuid_next = 1
    /\ invocations = 0
    /\ phase = "idle"
    /\ http_method = "None"
    /\ locals = Empty
    /\ calls = <<>>
    /\ response = NoResponse

\* lambda_handler runs from its first line to its return statement.
Return(method, out) ==
    /\ phase = "idle"
    /\ invocations < MaxInvocations
    /\ invocations' = invocations + 1
    /\ phase' = "returned"
    /\ http_method' = method
    /\ table' = out.table
    /\ bucket' = out.bucket
    /\ calls' = out.calls
    /\ locals' = out.locals
    /\ response' = out.response

Preflight ==
    \E event \in EventsFor("OPTIONS") :
        /\ Return("OPTIONS", Outcome(table, bucket, <<>>, Empty, Resp(200, Empty)))
        /\ UNCHANGED uuid_next

Create ==
    \E event \in EventsFor("POST"), payload \in PostBodies,
       now \in 1..MaxTime, faults \in PostFaults :
        /\ uuid_next <= MaxTickets
        /\ Return("POST", Post(table, bucket, payload, uuid_next, now, faults))
        /\ uuid_next' = IF payload.wellformed THEN uuid_next + 1 ELSE uuid_next

List ==
    \E event \in EventsFor("GET"), order \in ScanOrders(table), faults \in GetFaults :
        /\ Return("GET", Get(table, bucket, order, faults))
        /\ UNCHANGED uuid_next

Update ==
    \E event \in EventsFor("PUT"), payload \in PutBodies(CallerIds),
       faults \in PutFaults :
        /\ Return("PUT", Put(table, bucket, payload, faults))
        /\ UNCHANGED uuid_next

Remove ==
    \E event \in EventsFor("DELETE"), payload \in DeleteBodies(CallerIds),
       faults \in DeleteFaults :
        /\ Return("DELETE", Delete(table, bucket, payload, faults))
        /\ UNCHANGED uuid_next

Unsupported ==
    \E m \in UnsupportedMethods : \E event \in EventsFor(m) :
        /\ Return(m, Outcome(table, bucket, <<>>, Empty,
                             Resp(400, [message |-> "Unsupported method"])))
        /\ UNCHANGED uuid_next

\* The invocation is over: its frame is gone, nothing of the request is kept
\* between invocations, and the stores stay as the invocation left them.
Forget ==
    /\ phase = "returned"
    /\ phase' = "idle"
    /\ http_method' = "None"
    /\ locals' = Empty
    /\ calls' = <<>>
    /\ response' = NoResponse
    /\ UNCHANGED <<table, bucket, uuid_next, invocations>>

Next == Preflight \/ Create \/ List \/ Update \/ Remove \/ Unsupported \/ Forget

Spec == Init /\ [][Next]_vars

\* ------------------------------------------------------------------ claims
Returned == phase = "returned"
Count(cs, names) == Cardinality({i \in 1..Len(cs) : cs[i][1] \in names})
Made(cs, name) == \E i \in 1..Len(cs) : cs[i][1] = name
Succeeded(cs, name) == \E i \in 1..Len(cs) : cs[i][1] = name /\ cs[i][3]
Raised(cs, name) == \E i \in 1..Len(cs) : cs[i][1] = name /\ ~cs[i][3]
Has(lv, name) == name \in DOMAIN lv
\* Every call named a comes before every call named b.
Before(cs, a, b) ==
    \A i, j \in 1..Len(cs) : cs[i][1] = a /\ cs[j][1] = b => i < j
\* The last call of the invocation raised, which ended it.
Aborted(cs) == cs # <<>> /\ ~cs[Len(cs)][3]
Dangling(tbl, bkt) ==
    {id \in DOMAIN tbl : has_image_key(tbl[id]) /\ tbl[id].imageKey \notin bkt}
FixedHeaders ==
    [allowOrigin |-> "*", allowHeaders |-> "*",
     allowMethods |-> "OPTIONS,POST,GET,PUT,DELETE"]

\* C1: every stored record that carries an imageKey and whose status is not
\* Complete has its object in the object store.
C1_ImageObjectPresent ==
    \A id \in DOMAIN table :
        (has_image_key(table[id]) /\ table[id].status # "Complete")
            => table[id].imageKey \in bucket

\* C2 as stated: an Update publishes exactly once when sendEmail is true and
\* the new status is Complete, and never otherwise; no other method publishes.
C2_PublishCountAsStated ==
    Returned =>
        Count(calls, Publishes) =
            IF /\ http_method = "PUT"
               /\ Has(locals, "new_status")
               /\ locals.send_email
               /\ locals.new_status = "Complete"
            THEN 1 ELSE 0

\* C2 as amended: an Update publishes exactly once when sendEmail is true, the
\* new status is Complete and the record fetch before it did not raise; in
\* every other case, and in every other method, nothing is published.
C2_PublishCount ==
    Returned =>
        Count(calls, Publishes) =
            IF /\ http_method = "PUT"
               /\ Has(locals, "new_status")
               /\ locals.send_email
               /\ locals.new_status = "Complete"
               /\ Succeeded(calls, "get_item")
            THEN 1 ELSE 0

C2_Witness ==
    /\ Returned
    /\ http_method = "PUT"
    /\ Has(locals, "new_status")
    /\ locals.send_email
    /\ locals.new_status = "Complete"
    /\ Count(calls, Publishes) = 1
    /\ response.statusCode = 200

\* An Update to Complete that found an imageKey on the ticket's record, in
\* which no call other than the object delete raised.
CompletedWithImage ==
    /\ Returned
    /\ http_method = "PUT"
    /\ Has(locals, "existing_item_keys")
    /\ locals.new_status = "Complete"
    /\ "imageKey" \in locals.existing_item_keys
    /\ \A i \in 1..Len(calls) : calls[i][1] # "delete_object" => calls[i][3]

ImageFailed(lv, cs) ==
    /\ Has(lv, "has_image")
    /\ lv.has_image
    /\ lv.image_data = "bad" \/ Raised(cs, "put_object")

\* C5: a Create whose image payload fails to decode or to be stored returns
\* 500 and leaves the record store as it was, with no record for the
\* generated ticketId.
C5_NoPartialRecord ==
    [][(phase' = "returned" /\ http_method' = "POST" /\ ImageFailed(locals', calls'))
        => /\ response'.statusCode = 500
           /\ table' = table
           /\ locals'.ticket_id \notin DOMAIN table']_vars

C5_Witness ==
    /\ Returned
    /\ http_method = "POST"
    /\ ImageFailed(locals, calls)
    /\ locals.image_data = "bad"
    /\ response.statusCode = 500

\* A Delete step naming a ticketId that has no record in the record store.
DeleteOfAbsent ==
    /\ phase' = "returned"
    /\ http_method' = "DELETE"
    /\ Has(locals', "ticket_id")
    /\ locals'.ticket_id \notin DOMAIN table

\* C6 as stated: a Delete of a ticketId that has no record returns 200, makes
\* no object-store delete call and no publish, and changes neither store.
C6_DeleteAbsentAsStated ==
    [][DeleteOfAbsent
        => /\ response'.statusCode = 200
           /\ ~Made(calls', "delete_object")
           /\ ~Made(calls', "publish")
           /\ table' = table
           /\ bucket' = bucket]_vars

\* C6 as amended: a Delete of a ticketId that has no record returns 200, or
\* 500 when one of its record-store calls raises; either way it makes no
\* object-store delete call and no publish, and changes neither store.
C6_DeleteAbsent ==
    [][DeleteOfAbsent
        => /\ response'.statusCode = IF Aborted(calls') THEN 500 ELSE 200
           /\ Aborted(calls') => calls'[Len(calls')][1] \in {"get_item", "delete_item"}
           /\ ~Made(calls', "delete_object")
           /\ ~Made(calls', "publish")
           /\ table' = table
           /\ bucket' = bucket]_vars

C6_Witness ==
    /\ Returned
    /\ http_method = "DELETE"
    /\ Has(locals, "existing_item_keys")
    /\ locals.existing_item_keys = {}
    /\ Succeeded(calls, "delete_item")
    /\ response.statusCode = 200
    /\ table # Empty

\* C7 as stated: an invocation makes at most one record-store read, one
\* record-store write, one object-store operation and one publish.
C7_CallBudgetAsStated ==
    Returned =>
        /\ Count(calls, Reads) <= 1
        /\ Count(calls, Writes) <= 1
        /\ Count(calls, ObjectOps) <= 1
        /\ Count(calls, Publishes) <= 1

\* C7 as amended: an invocation makes at most one record-store read, one
\* record-store write and one publish; it makes at most one object-store
\* operation unless it is a List, which generates one signed URL for each
\* stored record that carries an imageKey.
C7_CallBudget ==
    Returned =>
        /\ Count(calls, Reads) <= 1
        /\ Count(calls, Writes) <= 1
        /\ Count(calls, Publishes) <= 1
        /\ http_method # "GET" => Count(calls, ObjectOps) <= 1
        /\ http_method = "GET" =>
              /\ \A i \in 1..Len(calls) :
                    calls[i][1] \in ObjectOps => calls[i][1] = "generate_presigned_url"
              /\ Count(calls, ObjectOps)
                    <= Cardinality({id \in DOMAIN table : has_image_key(table[id])})
              /\ response.statusCode = 200 =>
                    Count(calls, ObjectOps)
                        = Cardinality({id \in DOMAIN table : has_image_key(table[id])})

C7_Witness ==
    /\ Returned
    /\ http_method = "GET"
    /\ response.statusCode = 200
    /\ Count(calls, ObjectOps) = 2

\* Item `shown` of a listing is the stored record `stored`, with at most an
\* imageUrl added.
Shows(shown, stored) ==
    /\ DOMAIN stored \subseteq DOMAIN shown
    /\ DOMAIN shown \subseteq DOMAIN stored \cup {"imageUrl"}
    /\ \A k \in DOMAIN stored : shown[k] = stored[k]

\* C8: the list a List returns holds every stored record exactly once, newest
\* timestamp first, and the records without a timestamp after all the others.
C8_ListOrder ==
    (Returned /\ http_method = "GET" /\ response.statusCode = 200) =>
        LET out == response.body.items IN
        /\ Len(out) = Cardinality(DOMAIN table)
        /\ \A id \in DOMAIN table :
              \E i \in 1..Len(out) :
                  out[i].ticketId = id /\ Shows(out[i], table[id])
        /\ \A i, j \in 1..Len(out) :
              (i < j /\ "timestamp" \in DOMAIN out[j]) =>
                  /\ "timestamp" \in DOMAIN out[i]
                  /\ out[i].timestamp >= out[j].timestamp

C8_Witness ==
    /\ Returned
    /\ http_method = "GET"
    /\ response.statusCode = 200
    /\ Len(response.body.items) >= 2
    /\ locals.items[1].ticketId # response.body.items[1].ticketId
    /\ "timestamp" \notin DOMAIN locals.items[1]
    /\ "timestamp" \in DOMAIN response.body.items[1]

\* C9: a record enters the record store only by a Create, under the ticketId
\* that Create generated; a Delete that returns 200 leaves no record for the
\* ticketId it names; an Update naming a ticketId that has no record returns
\* 200 without adding a record for it.
C9_RecordsOnlyFromCreate ==
    [][phase' = "returned"
        => /\ \A id \in DOMAIN table' \ DOMAIN table :
                 http_method' = "POST" /\ id = uuid_next
           /\ (http_method' = "DELETE" /\ response'.statusCode = 200)
                 => locals'.ticket_id \notin DOMAIN table'
           /\ (/\ http_method' = "PUT"
               /\ Has(locals', "new_status")
               /\ locals'.ticket_id \notin DOMAIN table
               /\ ~Aborted(calls'))
                 => /\ response'.statusCode = 200
                    /\ locals'.ticket_id \notin DOMAIN table']_vars

\* C10: in an Update to Complete of a record that has an imageKey the object
\* cleanup comes before the publish and before the status write, and when the
\* status write then fails with a 500 no stored record carries an imageKey
\* whose object is missing from the object store.
C10_NoOrphanReference ==
    (/\ Returned
     /\ http_method = "PUT"
     /\ Has(locals, "existing_item_keys")
     /\ locals.new_status = "Complete"
     /\ "imageKey" \in locals.existing_item_keys)
    => /\ Made(calls, "delete_object")
       /\ Before(calls, "delete_object", "publish")
       /\ Before(calls, "delete_object", "update_item")
       /\ Raised(calls, "update_item")
            => /\ response.statusCode = 500
               /\ Dangling(table, bucket) = {}
====
